---- MODULE Spec2Model ----
(***************************************************************************)
(* TFitPiCAN 0.1.0: the CAN bus simulator (can_sim.py) and the scenario    *)
(* manager (scenario_manager.py).                                          *)
(*                                                                         *)
(* A session i is one CANBusSimulator object and one ScenarioManager       *)
(* object.  Every method of the two classes is one action.  Each method    *)
(* body is an assignment to a field of self and/or one call of print,      *)
(* which appends one line to the process's standard output.                *)
(*                                                                         *)
(* The model is of the class definitions.  The docstring delimiters at the *)
(* head of can_sim.py and scenario_manager.py are written with backslashes *)
(* and must be unescaped before Python will import the files.              *)
(*                                                                         *)
(* The CANManager class is not modelled: can_manager.py holds its unit     *)
(* tests, not the class, and those tests fix only the text it prints, not  *)
(* what it does with the simulator it is given.                            *)
(***************************************************************************)
EXTENDS Integers, Sequences, FiniteSets, TLC

\* ------------------------------------------------------------------ bounds
\* Number of sessions (simulator objects) alive in the process.
NumInst == 2
\* Number of method calls made in one run of the process.
MaxCalls == 4

Inst == 1..NumInst
\* Scenario names passed to load_scenario (the two named in the module docstring).
Names == {"front-collision", "ice on wheel"}

\* ------------------------------------------------------------------- state
VARIABLES
    sim,      \* sim[i]: the fields of the i-th CANBusSimulator (status, speed, doors)
    console,  \* the lines written to standard output by print, oldest first
    exc,      \* the exception the most recent call raised, "None" if it returned
    calls     \* the calls made so far, oldest first: [inst, op, arg]

vars == <<sim, console, exc, calls>>

\* --------------------------------------------------------- CANBusSimulator
\* A construction that leaves the object in a separate initial state.
CANBusSimulator_init_idle == [status |-> "Idle", speed |-> 0, doors |-> 0]

\* __init__: the fields of a freshly constructed simulator.
CANBusSimulator_init == [status |-> "Stopped", speed |-> 0, doors |-> 0]

\* start forgetting the assignment: the status keeps its old value.
start_self_keeps(self) == self

\* start also touching a second field.
start_self_speed(self) == [self EXCEPT !.status = "Running", !.speed = 1]

\* start refusing to leave the Stopped state.
start_self_refuses(self) ==
    IF self.status = "Stopped" THEN self ELSE [self EXCEPT !.status = "Running"]

\* self.status = "Running"
start_self(self) == [self EXCEPT !.status = "Running"]

\* stop written as a toggle.
stop_self_toggle(self) ==
    [self EXCEPT !.status = IF self.status = "Running" THEN "Stopped" ELSE "Running"]

\* self.status = "Stopped"
stop_self(self) == [self EXCEPT !.status = "Stopped"]

\* ------------------------------------------------------------------ output
\* The text of each status line, formatted as the f-strings format it.
SimStartedLine == "Simulator started"
SimStoppedLine == "Simulator stopped"
ScenarioLoadedLine(name) == "Scenario '" \o name \o "' loaded"
ScenarioRunningLine == "Scenario running..."
ScenarioStoppedLine == "Scenario stopped"

\* print routed to a logger: nothing reaches standard output.
print_silent(line) == console' = console

\* print stamping each line with a process-wide counter.
print_stamped(line) ==
    console' = Append(console, line \o " #" \o ToString(Len(console)))

\* print(line): one line appended to standard output.
print(line) == console' = Append(console, line)

\* The caller's view of a call that returned normally.
returned(i, op, arg) ==
    /\ exc' = "None"
    /\ calls' = Append(calls, [inst |-> i, op |-> op, arg |-> arg])

\* ----------------------------------------------------------------- actions
\* start written against a class attribute: every simulator is set running.
start_shared(i) ==
    /\ Len(calls) < MaxCalls
    /\ sim' = [j \in Inst |-> start_self(sim[j])]
    /\ print(SimStartedLine)
    /\ returned(i, "start", "")

\* CANBusSimulator.start
start(i) ==
    /\ Len(calls) < MaxCalls
    /\ sim' = [sim EXCEPT ![i] = start_self(sim[i])]
    /\ print(SimStartedLine)
    /\ returned(i, "start", "")

\* CANBusSimulator.stop
stop(i) ==
    /\ Len(calls) < MaxCalls
    /\ sim' = [sim EXCEPT ![i] = stop_self(sim[i])]
    /\ print(SimStoppedLine)
    /\ returned(i, "stop", "")

\* ScenarioManager.load_scenario
load_scenario(i, name) ==
    /\ Len(calls) < MaxCalls
    /\ print(ScenarioLoadedLine(name))
    /\ returned(i, "load_scenario", name)
    /\ UNCHANGED sim

\* ScenarioManager.run_scenario
run_scenario(i) ==
    /\ Len(calls) < MaxCalls
    /\ print(ScenarioRunningLine)
    /\ returned(i, "run_scenario", "")
    /\ UNCHANGED sim

\* ScenarioManager.stop_scenario
stop_scenario(i) ==
    /\ Len(calls) < MaxCalls
    /\ print(ScenarioStoppedLine)
    /\ returned(i, "stop_scenario", "")
    /\ UNCHANGED sim

\* ------------------------------------------------------------------- specs
\* After construction: CANBusSimulator(), ScenarioManager().
Init ==
    /\ sim = [i \in Inst |-> CANBusSimulator_init]
    /\ console = <<>>
    /\ exc = "None"
    /\ calls = <<>>

\* The simulator and the scenario manager driven by a caller.
Next ==
    \E i \in Inst :
        \/ start(i)
        \/ stop(i)
        \/ \E name \in Names : load_scenario(i, name)
        \/ run_scenario(i)
        \/ stop_scenario(i)

Spec == Init /\ [][Next]_vars

\* ----------------------------------------------- vocabulary of the properties
\* The calls made on session i, oldest first.
CallsOf(i) == SelectSeq(calls, LAMBDA c : c.inst = i)

\* The start and stop calls made on simulator i, oldest first, as method names.
SimOpsOf(i) ==
    LET cs == SelectSeq(calls, LAMBDA c : c.inst = i /\ c.op \in {"start", "stop"})
    IN  [k \in 1..Len(cs) |-> cs[k].op]

\* The most recent of start and stop called on simulator i, "none" when fresh.
LastSimOp(i) ==
    IF SimOpsOf(i) = <<>> THEN "none" ELSE SimOpsOf(i)[Len(SimOpsOf(i))]

\* stop has been called on simulator i.
StoppedBefore(i) == \E k \in 1..Len(calls) : calls[k].inst = i /\ calls[k].op = "stop"

\* This step is a call of method op on session i.
Called(i, op) ==
    /\ Len(calls') = Len(calls) + 1
    /\ calls'[Len(calls')].inst = i
    /\ calls'[Len(calls')].op = op

\* This step is a call of some method on session i.
CalledOn(i) == Len(calls') = Len(calls) + 1 /\ calls'[Len(calls')].inst = i

\* --------------------------------------------------------------------- C1
\* C1: in every reachable state (fresh, running, or right after stop), a call
\* of start() on a simulator leaves that simulator's status equal to "Running".
C1_StartLeavesRunning ==
    [][\A i \in Inst : Called(i, "start") => sim'[i].status = "Running"]_vars

\* start() called right after stop() and after a first start(): status is Running.
C1_Witness ==
    \E i \in Inst :
        /\ SimOpsOf(i) = <<"start", "stop", "start">>
        /\ sim[i].status = "Running"

\* --------------------------------------------------------------------- C2
\* C2: a call of stop() leaves status "Stopped"; on a never started simulator
\* it returns normally; and stop() after stop() leaves the simulator's fields
\* as the first stop() left them.
C2_StopLeavesStopped ==
    [][\A i \in Inst :
          Called(i, "stop") =>
              /\ sim'[i].status = "Stopped"
              /\ exc' = "None"
              /\ (LastSimOp(i) \in {"none", "stop"} => sim'[i] = sim[i])]_vars

\* stop() twice on a simulator that was never started.
C2_Witness ==
    \E i \in Inst :
        /\ SimOpsOf(i) = <<"stop", "stop">>
        /\ sim[i].status = "Stopped"

\* --------------------------------------------------------------------- C3
\* C3 as stated: once stop() has been called on a simulator, a later start()
\* fails with SessionStopped and leaves the simulator unchanged, and the
\* simulator is in state Stopped ever after.
C3_StopIsTerminal ==
    /\ [](\A i \in Inst : StoppedBefore(i) => sim[i].status = "Stopped")
    /\ [][\A i \in Inst :
             (StoppedBefore(i) /\ Called(i, "start")) =>
                 (exc' = "SessionStopped" /\ sim'[i] = sim[i])]_vars

\* C3 as the code has it: stop() is not terminal.  A start() called after a
\* stop() returns normally and sets the status to "Running"; a stop() called
\* after a stop() leaves it "Stopped".
C3_RestartAfterStop ==
    [][\A i \in Inst :
          /\ (StoppedBefore(i) /\ Called(i, "start")) =>
                 (exc' = "None" /\ sim'[i].status = "Running")
          /\ (StoppedBefore(i) /\ Called(i, "stop")) =>
                 (exc' = "None" /\ sim'[i].status = "Stopped")]_vars

\* A simulator restarted after stop(): it is running although stop() was called.
C3_Witness ==
    \E i \in Inst :
        /\ SimOpsOf(i) = <<"stop", "start">>
        /\ sim[i].status = "Running"
        /\ exc = "None"

\* --------------------------------------------------------------------- C4
\* C4 as stated: a new session is Idle, the states are Idle, Running, Paused
\* and Stopped, and each change of state is Idle->Running, Running->Paused,
\* Paused->Running or a change into Stopped.
C4_IdleRunningPausedStopped ==
    /\ \A i \in Inst : sim[i].status = "Idle"
    /\ [](\A i \in Inst : sim[i].status \in {"Idle", "Running", "Paused", "Stopped"})
    /\ [][\A i \in Inst :
             sim'[i].status # sim[i].status =>
                 \/ sim'[i].status = "Stopped"
                 \/ <<sim[i].status, sim'[i].status>> \in
                        {<<"Idle", "Running">>, <<"Running", "Paused">>,
                         <<"Paused", "Running">>}]_vars

\* C4 as the code has it: a new simulator is Stopped, the states are Stopped
\* and Running, and each change of state is Stopped->Running, made by start(),
\* or Running->Stopped, made by stop().
C4_StoppedRunning ==
    /\ \A i \in Inst : sim[i].status = "Stopped"
    /\ [](\A i \in Inst : sim[i].status \in {"Stopped", "Running"})
    /\ [][\A i \in Inst :
             sim'[i].status # sim[i].status =>
                 \/ /\ sim[i].status = "Stopped"
                    /\ sim'[i].status = "Running"
                    /\ Called(i, "start")
                 \/ /\ sim[i].status = "Running"
                    /\ sim'[i].status = "Stopped"
                    /\ Called(i, "stop")]_vars

\* A simulator that went Stopped -> Running -> Stopped -> Running.
C4_Witness ==
    \E i \in Inst :
        /\ SimOpsOf(i) = <<"start", "stop", "start">>
        /\ sim[i].status = "Running"
        /\ CallsOf(i) = calls

\* --------------------------------------------------------------------- C5
\* The status line each method of the simulator and of the scenario manager
\* is documented to write.
StatusLineOf(c) ==
    CASE c.op = "start" -> "Simulator started"
      [] c.op = "stop" -> "Simulator stopped"
      [] c.op = "load_scenario" -> "Scenario '" \o c.arg \o "' loaded"
      [] c.op = "run_scenario" -> "Scenario running..."
      [] c.op = "stop_scenario" -> "Scenario stopped"
      [] OTHER -> ""

\* C5 as stated: no operation of the simulator or of the scenario manager
\* writes to the console.
C5_NothingPrinted == console = <<>>

\* C5 as the code has it: every call of start, stop, load_scenario,
\* run_scenario and stop_scenario writes exactly one line to the console, its
\* status line, and that is the only report of the call.
C5_OneLinePerCall ==
    /\ Len(console) = Len(calls)
    /\ \A k \in 1..Len(calls) : console[k] = StatusLineOf(calls[k])

\* A scenario was loaded and run and a simulator started and stopped, and the
\* console holds the four status lines.
C5_Witness ==
    /\ Len(calls) = 4
    /\ {calls[k].op : k \in 1..Len(calls)} =
           {"load_scenario", "run_scenario", "start", "stop"}
    /\ Len(console) = 4
    /\ \E k \in 1..4 : console[k] = "Scenario 'ice on wheel' loaded"

\* --------------------------------------------------------------------- C6
\* What the calls cs, made on a simulator of its own, leave in its fields.
RECURSIVE Replay(_)
Replay(cs) ==
    IF cs = <<>>
    THEN CANBusSimulator_init
    ELSE LET before == Replay(SubSeq(cs, 1, Len(cs) - 1))
             c == cs[Len(cs)]
         IN  CASE c.op = "start" -> start_self(before)
               [] c.op = "stop" -> stop_self(before)
               [] OTHER -> before

\* C6: a call on one session never changes the status, speed or doors of
\* another session's simulator, and every simulator's fields are what the
\* calls made on it would produce on a simulator alone in the process.
C6_SessionsIsolated ==
    /\ [](\A i \in Inst : sim[i] = Replay(CallsOf(i)))
    /\ [][\A i, j \in Inst :
             (i # j /\ CalledOn(i)) => sim'[j] = sim[j]]_vars

\* Two simulators driven in an interleaving: one was started and is running,
\* the other was started, then stopped after the first one's start.
C6_Witness ==
    \E i, j \in Inst :
        /\ i # j
        /\ [k \in 1..Len(calls) |-> <<calls[k].inst, calls[k].op>>] =
               <<(<<j, "start">>), (<<i, "start">>), (<<j, "stop">>)>>
        /\ sim[i].status = "Running"
        /\ sim[j].status = "Stopped"

\* --------------------------------------------------------------------- C7
\* The operations run on session i with their arguments, oldest first.
ScriptOf(i) ==
    LET cs == CallsOf(i)
    IN  [k \in 1..Len(cs) |-> <<cs[k].op, cs[k].arg>>]

\* The lines the calls on session i wrote to the console, oldest first.
EventsOf(i) ==
    LET at == SelectSeq([k \in 1..Len(calls) |-> k],
                        LAMBDA k : calls[k].inst = i /\ k <= Len(console))
    IN  [n \in 1..Len(at) |-> console[at[n]]]

\* C7: two fresh sessions on which the same operations were run with the same
\* arguments in the same order have written the same lines in the same order
\* and their simulators are in the same state.
C7_Deterministic ==
    LET script == [i \in Inst |-> ScriptOf(i)]
    IN  \A a, b \in Inst :
            (a # b /\ script[a] = script[b]) =>
                /\ EventsOf(a) = EventsOf(b)
                /\ sim[a] = sim[b]

\* The same scenario (load a named scenario, start the simulator) run on two
\* sessions, the runs interleaved.
C7_Witness ==
    \E a, b \in Inst :
        /\ a # b
        /\ ScriptOf(a) = <<(<<"load_scenario", "front-collision">>), (<<"start", "">>)>>
        /\ ScriptOf(b) = ScriptOf(a)
        /\ EventsOf(a) = <<"Scenario 'front-collision' loaded", "Simulator started">>
        /\ sim[a].status = "Running"
        /\ calls[1].inst = calls[4].inst

\* -------------------------------------------------------------------- C10
\* C10: in every reachable state speed = 0, doors = 0 and status is "Running"
\* or "Stopped"; start() and stop() leave speed and doors as they were.
C10_OnlyStatusChanges ==
    /\ [](\A i \in Inst :
             /\ sim[i].speed = 0
             /\ sim[i].doors = 0
             /\ sim[i].status \in {"Running", "Stopped"})
    /\ [][\A i \in Inst :
             (Called(i, "start") \/ Called(i, "stop")) =>
                 /\ sim'[i].speed = sim[i].speed
                 /\ sim'[i].doors = sim[i].doors
                 /\ DOMAIN sim'[i] = {"status", "speed", "doors"}]_vars

\* Both values of status are held at once, after starts and a stop, with speed
\* and doors still 0.
C10_Witness ==
    \E i, j \in Inst :
        /\ SimOpsOf(i) = <<"start">>
        /\ SimOpsOf(j) = <<"start", "stop">>
        /\ sim[i] = [status |-> "Running", speed |-> 0, doors |-> 0]
        /\ sim[j] = [status |-> "Stopped", speed |-> 0, doors |-> 0]

====
